---- MODULE Spec2Model ----
(***************************************************************************)
(* A model of SchemaBuilder (src/src/builder.ts): the registry of pending, *)
(* final and directly defined types, the lazy getOrBuildType resolver, the *)
(* getFinalTypeMap build pass and the field / interface / member thunks    *)
(* that the built GraphQL types hand to their consumer.                    *)
(***************************************************************************)
EXTENDS Naturals, Sequences, FiniteSets, TLC

\* ------------------------------------------------------------------ bounds
\* At most this many extendType descriptors are pushed for one name.
MaxExtensions == 2
\* A kind-specific builder is run at most this often for one name.
MaxBuilds == 2
\* The deepest boolean[] list spec the list-wrapping property is checked for.
MaxListDepth == 3

\* ------------------------------------------------------- the type universe
\* The builtin scalars (SCALARS of builder.ts).
SCALARS == {"String", "Int", "Float", "ID", "Boolean"}

\* The names under which types are registered in the maps.
TypeNames ==
    {"A", "B", "C", "I", "J", "U", "N", "V", "W", "X", "M", "P", "Q", "G",
     "Float"}

NoFields == << >>
NoArgs == << >>

\* An optional boolean (nullable, required, nullability.input, ...):
\* "undefined", "true" or "false".
Undefined == "undefined"
\* No resolver (resolve, defaultResolver left undefined).
NoResolver == "none"
\* The list option of a field or argument: left out, true, or an array of
\* booleans.
NoList == [kind |-> "none", levels |-> << >>]
ListTrue == [kind |-> "true", levels |-> << >>]
ListOf(levels) == [kind |-> "array", levels |-> levels]

Field(n, t) ==
    [name |-> n, type |-> t, args |-> NoArgs, resolve |-> NoResolver,
     nullable |-> Undefined, required |-> Undefined, list |-> NoList]
FieldWithArgs(n, t, a) == [Field(n, t) EXCEPT !.args = a]
Arg(n, t) ==
    [name |-> n, type |-> t, nullable |-> Undefined, required |-> Undefined,
     list |-> NoList]
\* A field or argument with one more option set.
Resolve(f, fn) == [f EXCEPT !.resolve = fn]
Nullable(f, v) == [f EXCEPT !.nullable = v]
Required(f, v) == [f EXCEPT !.required = v]
List(f, l) == [f EXCEPT !.list = l]

\* A wrapped Nexus type definition (objectType, interfaceType, unionType,
\* extendType of the definitions/ directory) or a GraphQLNamedType given
\* directly ("Named").  definition: what the definition callback declares.
TypeDef(nm, nx, fs, is, hm, ms, rt) ==
    [name |-> nm, nexus |-> nx, fields |-> fs, interfaces |-> is,
     hasMembers |-> hm, members |-> ms, resolveType |-> rt,
     defaultResolver |-> NoResolver,
     nullability |-> [input |-> Undefined, output |-> Undefined]]
\* A type definition with a defaultResolver, with a nullability config.
DefaultResolver(td, fn) == [td EXCEPT !.defaultResolver = fn]
Nullability(td, in, out) ==
    [td EXCEPT !.nullability = [input |-> in, output |-> out]]

Defs ==
    [ dA  |-> TypeDef("A", "Object",
                      << Field("b", "B"), Nullable(Field("c", "C"), "true"),
                         FieldWithArgs("self", "A",
                             << Arg("depth", "Int") >>) >>,
                      << >>, FALSE, << >>, FALSE),
      dB  |-> Nullability(
                  TypeDef("B", "Object",
                      << FieldWithArgs("a", "A",
                             << Arg("n", "Int"),
                                Required(Arg("m", "Int"), "false") >>),
                         Nullable(Field("c", "C"), "false") >>,
                      << >>, FALSE, << >>, FALSE),
                  "true", "false"),
      dC  |-> DefaultResolver(
                  TypeDef("C", "Object",
                      << Resolve(Field("ok", "Boolean"), "resolveOk"),
                         Field("plain", "String") >>,
                      << "I" >>, FALSE, << >>, FALSE),
                  "defaultResolverOfC"),
      dC2 |-> TypeDef("C", "Object",
                      << Field("ok", "String") >>,
                      << >>, FALSE, << >>, FALSE),
      dI  |-> TypeDef("I", "Interface",
                      << Resolve(Field("id", "ID"), "resolveId"),
                         Resolve(Field("ok", "Int"), "resolveOkOfI") >>,
                      << >>, FALSE, << >>, TRUE),
      dJ  |-> TypeDef("J", "Interface",
                      << Field("id", "ID") >>,
                      << >>, FALSE, << >>, FALSE),
      dU  |-> TypeDef("U", "Union", NoFields,
                      << >>, TRUE, << "A", "B" >>, TRUE),
      dV  |-> TypeDef("V", "Union", NoFields,
                      << >>, TRUE, << "X" >>, FALSE),
      dW  |-> TypeDef("W", "Union", NoFields,
                      << >>, TRUE, << >>, TRUE),
      dX  |-> TypeDef("X", "Union", NoFields,
                      << >>, FALSE, << >>, TRUE),
      dN  |-> TypeDef("N", "InputObject",
                      << Field("next", "N"),
                         Required(Field("must", "N"), "true") >>,
                      << >>, FALSE, << >>, FALSE),
      dM  |-> TypeDef("M", "InputObject",
                      << Required(Nullable(Field("m", "M"), "true"), "true") >>,
                      << >>, FALSE, << >>, FALSE),
      dP  |-> TypeDef("P", "Object",
                      << Required(Nullable(Field("ok", "Boolean"), "true"),
                                  "true"),
                         List(Field("tags", "String"), ListTrue) >>,
                      << >>, FALSE, << >>, FALSE),
      dQ  |-> TypeDef("Q", "Object",
                      << FieldWithArgs("f", "String",
                             << Required(Nullable(Arg("k", "Int"), "false"),
                                         "true") >> ) >>,
                      << >>, FALSE, << >>, FALSE),
      dG  |-> TypeDef("G", "Object",
                      << Field("ratio", "Float"),
                         List(Field("grid", "Float"), ListOf(<< TRUE, FALSE >>)),
                         Nullable(List(Field("rows", "Int"),
                                       ListOf(<< FALSE, TRUE >>)), "true"),
                         List(Field("cells", "String"), ListOf(<< TRUE >>)) >>,
                      << >>, FALSE, << >>, FALSE),
      dF  |-> TypeDef("Float", "Object",
                      << Field("digits", "Int") >>,
                      << >>, FALSE, << >>, FALSE),
      eA  |-> TypeDef("A", "Extend",
                      << Field("extra", "String") >>,
                      << >>, FALSE, << >>, FALSE),
      eC  |-> TypeDef("C", "Extend",
                      << Field("more", "Int") >>,
                      << >>, FALSE, << >>, FALSE),
      gC  |-> TypeDef("C", "Named", NoFields, << >>, FALSE, << >>, FALSE) ]

DefIds == DOMAIN Defs

\* The schemas that are built: each is the set of type definitions one
\* application passes, in some order and possibly repeatedly, to addType.
Programs ==
    { {"dA", "dB", "dC", "dI"},
      {"dA", "dB", "dC", "dC2", "gC", "eA"},
      {"dA", "dB", "dJ", "dU"},
      {"dN", "dJ"},
      {"dV", "dW", "dX"},
      {"dM", "dP", "dQ"},
      {"gC", "eC"},
      {"dF", "dG"} }

\* The nullability option of the config given to the constructor.
DefaultConfig == [nullability |-> [input |-> Undefined, output |-> Undefined]]
Configs ==
    { DefaultConfig,
      [nullability |-> [input |-> "true", output |-> "false"]] }

\* The GraphQL kind of a GraphQLNamedType given directly.
NamedKind == [gC |-> "Object"]

isNexusExtendTypeDef(d) == Defs[d].nexus = "Extend"
isNamedType(d) == Defs[d].nexus = "Named"

\* ---------------------------------------------------------------- values
\* "No entry" of pendingTypeMap, and of finalTypeMap / definedTypeMap.
NoDef == "none"
NoType == [def |-> "none", serial |-> 0]

\* A GraphQL type object: the descriptor (or given type, or scalar) it comes
\* from and, for a built one, which run of the builder made it.
BuiltType(d, n) == [def |-> d, serial |-> n]
\* The object a descriptor id stands for: the wrapped definition itself or,
\* for a "Named" one, the GraphQLNamedType that was given.
ObjRef(d) == [def |-> d, serial |-> 0]
GivenType(d) == ObjRef(d)
ScalarType(name) == [def |-> name, serial |-> 0]

KindOf(t) ==
    IF t.def \in SCALARS THEN "Scalar"
    ELSE IF isNamedType(t.def) THEN NamedKind[t.def]
    ELSE Defs[t.def].nexus

NameOf(t) == IF t.def \in SCALARS THEN t.def ELSE Defs[t.def].name

Lookup(map, name) == IF name \in DOMAIN map THEN map[name] ELSE NoType
LookupDef(map, name) == IF name \in DOMAIN map THEN map[name] ELSE NoDef

Has(seq, x) == \E i \in DOMAIN seq : seq[i] = x

\* ----------------------------------------------------------------- state
VARIABLES
    types,             \* the type definitions of the schema being built
    pendingTypeMap,    \* name -> descriptor id, or NoDef
    pendingKeys,       \* Object.keys(pendingTypeMap): the names, by insertion
    finalTypeMap,      \* name -> type object, or NoType
    definedTypeMap,    \* name -> type object given directly, or NoType
    typeExtensionMap,  \* name -> sequence of extendType descriptor ids
    buildingTypes,     \* the Set buildingTypes, in insertion order
    built,             \* name -> how often a kind-specific builder ran for it
    config,            \* the BuilderConfig given to the constructor
    nullability,       \* the builder's root-level nullability defaults
    returned,          \* getFinalTypeMap has returned the type map
    lateReg,           \* a descriptor became pending after a getFinalTypeMap call
    finalizeCalled,    \* getFinalTypeMap has been called
    handed,            \* built type objects a thunk has handed to the consumer
    last               \* the last call: operation, receiver, outcome

vars ==
    << types, pendingTypeMap, pendingKeys, finalTypeMap, definedTypeMap,
       typeExtensionMap, buildingTypes, built, config, nullability, returned,
       lateReg, finalizeCalled, handed, last >>

\* The builder's own fields, as one record the operations transform.
Builder ==
    [pending |-> pendingTypeMap, keys |-> pendingKeys, final |-> finalTypeMap,
     defined |-> definedTypeMap, ext |-> typeExtensionMap,
     building |-> buildingTypes, built |-> built, config |-> config,
     nullability |-> nullability]

\* ---------------------------------------------------------------- outcomes
\* What a call gives back: no error and a value (a type object in type, or a
\* sequence of entries in out), or the error thrown; b is the builder after it.
Return(b, out) ==
    [err |-> "none", errName |-> "", chain |-> << >>, b |-> b,
     type |-> NoType, out |-> out]
ReturnType(b, t) ==
    [err |-> "none", errName |-> "", chain |-> << >>, b |-> b,
     type |-> t, out |-> << >>]
Throw(kind, name, chain, b) ==
    [err |-> kind, errName |-> name, chain |-> chain, b |-> b,
     type |-> NoType, out |-> << >>]

\* extendError(name): "<name> was already defined and imported as a type".
extendError(name, b) == Throw("AlreadyDefined", name, << >>, b)

\* ---------------------------------------------------------------- addType
\* addType as it would be if it looked for an existing type in pendingTypeMap
\* alone.
addType_PendingOnly(d, b) ==
    LET name == Defs[d].name
        existingType ==
            IF LookupDef(b.pending, name) # NoDef
            THEN ObjRef(b.pending[name])
            ELSE NoType
    IN  IF isNexusExtendTypeDef(d)
        THEN Return([b EXCEPT !.ext[name] = Append(@, d)], << >>)
        ELSE IF existingType # NoType
        THEN IF existingType = ObjRef(d)
             THEN Return(b, << >>)
             ELSE extendError(name, b)
        ELSE IF isNamedType(d)
        THEN Return([b EXCEPT !.final[name] = GivenType(d),
                              !.defined[name] = GivenType(d)], << >>)
        ELSE Return([b EXCEPT !.pending[name] = d,
                              !.keys = Append(@, name)], << >>)

\* addType as it would be without "if (existingType === typeDef) return".
addType_NoSameCheck(d, b) ==
    LET name == Defs[d].name
        existingFinal == Lookup(b.final, name)
        existingType ==
            IF existingFinal # NoType THEN existingFinal
            ELSE IF LookupDef(b.pending, name) # NoDef
                 THEN ObjRef(b.pending[name])
                 ELSE NoType
    IN  IF isNexusExtendTypeDef(d)
        THEN Return([b EXCEPT !.ext[name] = Append(@, d)], << >>)
        ELSE IF existingType # NoType
        THEN extendError(name, b)
        ELSE IF isNamedType(d)
        THEN Return([b EXCEPT !.final[name] = GivenType(d),
                              !.defined[name] = GivenType(d)], << >>)
        ELSE Return([b EXCEPT !.pending[name] = d,
                              !.keys = Append(@, name)], << >>)

\* addType as it would be if a GraphQLNamedType were stored before the check
\* for an existing type.
addType_NamedUnchecked(d, b) ==
    LET name == Defs[d].name
        existingFinal == Lookup(b.final, name)
        existingType ==
            IF existingFinal # NoType THEN existingFinal
            ELSE IF LookupDef(b.pending, name) # NoDef
                 THEN ObjRef(b.pending[name])
                 ELSE NoType
    IN  IF isNexusExtendTypeDef(d)
        THEN Return([b EXCEPT !.ext[name] = Append(@, d)], << >>)
        ELSE IF isNamedType(d)
        THEN Return([b EXCEPT !.final[name] = GivenType(d),
                              !.defined[name] = GivenType(d)], << >>)
        ELSE IF existingType # NoType
        THEN IF existingType = ObjRef(d)
             THEN Return(b, << >>)
             ELSE extendError(name, b)
        ELSE Return([b EXCEPT !.pending[name] = d,
                              !.keys = Append(@, name)], << >>)

\* addType as it would be if it stored typeDef before it threw extendError.
addType_StoresThenThrows(d, b) ==
    LET name == Defs[d].name
        existingFinal == Lookup(b.final, name)
        existingType ==
            IF existingFinal # NoType THEN existingFinal
            ELSE IF LookupDef(b.pending, name) # NoDef
                 THEN ObjRef(b.pending[name])
                 ELSE NoType
    IN  IF isNexusExtendTypeDef(d)
        THEN Return([b EXCEPT !.ext[name] = Append(@, d)], << >>)
        ELSE IF existingType # NoType
        THEN IF existingType = ObjRef(d)
             THEN Return(b, << >>)
             ELSE IF isNamedType(d)
             THEN extendError(name,
                      [b EXCEPT !.final[name] = GivenType(d),
                                !.defined[name] = GivenType(d)])
             ELSE extendError(name,
                      [b EXCEPT !.pending[name] = d,
                                !.keys = IF LookupDef(b.pending, name) # NoDef
                                         THEN @ ELSE Append(@, name)])
        ELSE IF isNamedType(d)
        THEN Return([b EXCEPT !.final[name] = GivenType(d),
                              !.defined[name] = GivenType(d)], << >>)
        ELSE Return([b EXCEPT !.pending[name] = d,
                              !.keys = Append(@, name)], << >>)

\* addType as it would be if an extendType went through the check for an
\* existing type of its name like every other definition.
addType_ExtendChecked(d, b) ==
    LET name == Defs[d].name
        existingFinal == Lookup(b.final, name)
        existingType ==
            IF existingFinal # NoType THEN existingFinal
            ELSE IF LookupDef(b.pending, name) # NoDef
                 THEN ObjRef(b.pending[name])
                 ELSE NoType
    IN  IF existingType # NoType
        THEN IF existingType = ObjRef(d)
             THEN Return(b, << >>)
             ELSE extendError(name, b)
        ELSE IF isNexusExtendTypeDef(d)
        THEN Return([b EXCEPT !.ext[name] = Append(@, d)], << >>)
        ELSE IF isNamedType(d)
        THEN Return([b EXCEPT !.final[name] = GivenType(d),
                              !.defined[name] = GivenType(d)], << >>)
        ELSE Return([b EXCEPT !.pending[name] = d,
                              !.keys = Append(@, name)], << >>)

addType(d, b) ==
    LET name == Defs[d].name
        existingFinal == Lookup(b.final, name)
        existingType ==
            IF existingFinal # NoType THEN existingFinal
            ELSE IF LookupDef(b.pending, name) # NoDef
                 THEN ObjRef(b.pending[name])
                 ELSE NoType
    IN  IF isNexusExtendTypeDef(d)
        THEN Return([b EXCEPT !.ext[name] = Append(@, d)], << >>)
        ELSE IF existingType # NoType
        THEN IF existingType = ObjRef(d)
             THEN Return(b, << >>)
             ELSE extendError(name, b)
        ELSE IF isNamedType(d)
        THEN Return([b EXCEPT !.final[name] = GivenType(d),
                              !.defined[name] = GivenType(d)], << >>)
        ELSE Return([b EXCEPT !.pending[name] = d,
                              !.keys = Append(@, name)], << >>)

\* ------------------------------------------------- kind-specific builders
\* Each runs the definition callback, which only collects what it declares,
\* and makes a new GraphQL type object whose fields / types are thunks.
NewType(d, b) ==
    LET name == Defs[d].name
        n == b.built[name] + 1
    IN  ReturnType([b EXCEPT !.built[name] = n], BuiltType(d, n))

MissingResolveType(d, b) ==
    LET name == Defs[d].name
    IN  Throw("MissingResolveType", name, << >>,
              [b EXCEPT !.built[name] = @ + 1])

objectType(d, b) == NewType(d, b)

inputObjectType(d, b) == NewType(d, b)

enumType(d, b) == NewType(d, b)

scalarType(d, b) == NewType(d, b)

\* interfaceType as it would be without the check of resolveType.
interfaceType_NoResolveTypeCheck(d, b) == NewType(d, b)

interfaceType(d, b) ==
    IF ~Defs[d].resolveType THEN MissingResolveType(d, b) ELSE NewType(d, b)

unionType(d, b) ==
    IF ~Defs[d].resolveType THEN MissingResolveType(d, b) ELSE NewType(d, b)

\* missingType(typeName): always throws.
missingType(name, b) == Throw("MissingType", name, << >>, b)

\* --------------------------------------------------------- getOrBuildType
\* switch (pendingType.nexus), after this.buildingTypes.add(name)
dispatch(name, pendingType, b) ==
    CASE Defs[pendingType].nexus = "Enum" -> enumType(pendingType, b)
      [] Defs[pendingType].nexus = "Object" -> objectType(pendingType, b)
      [] Defs[pendingType].nexus = "Union" -> unionType(pendingType, b)
      [] Defs[pendingType].nexus = "Scalar" -> scalarType(pendingType, b)
      [] Defs[pendingType].nexus = "Interface" -> interfaceType(pendingType, b)
      [] Defs[pendingType].nexus = "InputObject" -> inputObjectType(pendingType, b)
      [] OTHER -> missingType(name, b)

\* getOrBuildType as it would be without the lookup in finalTypeMap.
getOrBuildType_NoCache(name, b) ==
    IF name \in SCALARS THEN ReturnType(b, ScalarType(name))
    ELSE IF Has(b.building, name)
    THEN Throw("CircularDependency", name, b.building, b)
    ELSE IF name = "" THEN Throw("UnknownName", name, << >>, b)
    ELSE IF LookupDef(b.pending, name) = NoDef
    THEN IF Lookup(b.final, name) # NoType THEN ReturnType(b, b.final[name])
         ELSE missingType(name, b)
    ELSE dispatch(name, b.pending[name],
                  [b EXCEPT !.building = Append(@, name)])

\* getOrBuildType as it would be if pendingTypeMap were consulted before
\* finalTypeMap.
getOrBuildType_PendingFirst(name, b) ==
    IF name \in SCALARS THEN ReturnType(b, ScalarType(name))
    ELSE IF LookupDef(b.pending, name) # NoDef /\ Has(b.building, name)
    THEN Throw("CircularDependency", name, b.building, b)
    ELSE IF LookupDef(b.pending, name) # NoDef
    THEN dispatch(name, b.pending[name],
                  [b EXCEPT !.building = Append(@, name)])
    ELSE IF Lookup(b.final, name) # NoType THEN ReturnType(b, b.final[name])
    ELSE IF name = "" THEN Throw("UnknownName", name, << >>, b)
    ELSE missingType(name, b)

\* getOrBuildType as it would be without the buildingTypes check.
getOrBuildType_NoGuard(name, b) ==
    IF name \in SCALARS THEN ReturnType(b, ScalarType(name))
    ELSE IF Lookup(b.final, name) # NoType THEN ReturnType(b, b.final[name])
    ELSE IF name = "" THEN Throw("UnknownName", name, << >>, b)
    ELSE IF LookupDef(b.pending, name) = NoDef THEN missingType(name, b)
    ELSE dispatch(name, b.pending[name],
                  [b EXCEPT !.building = Append(@, name)])

\* getOrBuildType as it would be if the name were added to buildingTypes
\* before pendingTypeMap is looked at.
getOrBuildType_MarksBeforeLookup(name, b) ==
    IF name \in SCALARS THEN ReturnType(b, ScalarType(name))
    ELSE IF Lookup(b.final, name) # NoType THEN ReturnType(b, b.final[name])
    ELSE IF Has(b.building, name)
    THEN Throw("CircularDependency", name, b.building, b)
    ELSE IF name = "" THEN Throw("UnknownName", name, << >>, b)
    ELSE IF LookupDef(b.pending, name) = NoDef
    THEN missingType(name, [b EXCEPT !.building = Append(@, name)])
    ELSE dispatch(name, b.pending[name],
                  [b EXCEPT !.building = Append(@, name)])

getOrBuildType(name, b) ==
    IF name \in SCALARS THEN ReturnType(b, ScalarType(name))
    ELSE IF Lookup(b.final, name) # NoType THEN ReturnType(b, b.final[name])
    ELSE IF Has(b.building, name)
    THEN Throw("CircularDependency", name, b.building, b)
    ELSE IF name = "" THEN Throw("UnknownName", name, << >>, b)
    ELSE IF LookupDef(b.pending, name) = NoDef THEN missingType(name, b)
    ELSE dispatch(name, b.pending[name],
                  [b EXCEPT !.building = Append(@, name)])

\* --------------------------------------------------------- getFinalTypeMap
\* Object.keys(this.pendingTypeMap).forEach((key) => ...): stored(...) is what
\* follows the call of getOrBuildType for one key.
RECURSIVE forEachPendingKey(_, _, _)
RECURSIVE stored(_, _, _)
stored(keys, i, r) ==
    IF r.err # "none" THEN r
    ELSE forEachPendingKey(keys, i + 1,
             [r.b EXCEPT !.final[keys[i]] = r.type, !.building = << >>])

forEachPendingKey(keys, i, b) ==
    IF i > Len(keys) THEN Return(b, << >>)
    ELSE IF b.final[keys[i]] # NoType THEN forEachPendingKey(keys, i + 1, b)
    ELSE IF b.defined[keys[i]] # NoType THEN extendError(keys[i], b)
    ELSE stored(keys, i, getOrBuildType(keys[i], b))

\* getFinalTypeMap as it would be if the loop left out the last pending key.
getFinalTypeMap_SkipsLast(b) ==
    IF Len(b.keys) = 0 THEN Return(b, << >>)
    ELSE forEachPendingKey(SubSeq(b.keys, 1, Len(b.keys) - 1), 1, b)

\* getFinalTypeMap as it would be if it caught what building a type throws
\* and returned the types built so far.
getFinalTypeMap_CatchesErrors(b) ==
    Return(forEachPendingKey(b.keys, 1, b).b, << >>)

getFinalTypeMap(b) == forEachPendingKey(b.keys, 1, b)

\* ------------------------------------------------------ typed name lookups
\* getInterface, getObjectType, getOutputType, getInputType and
\* getInputObjectType: getOrBuildType, then a check of the kind.
isOutputKind(k) == k \in {"Scalar", "Object", "Interface", "Union", "Enum"}
isInputKind(k) == k \in {"InputObject", "Scalar", "Enum"}
isKind(role, k) ==
    CASE role = "interface" -> k = "Interface"
      [] role = "object" -> k = "Object"
      [] role = "inputObject" -> k = "InputObject"
      [] role = "input" -> isInputKind(k)
      [] role = "output" -> isOutputKind(k)

\* if (!isXType(type)) throw new Error("Expected ..."); return type
expected(name, role, r) ==
    IF r.err # "none" THEN r
    ELSE IF ~isKind(role, KindOf(r.type))
    THEN Throw("TypeMismatch", name, << >>, r.b)
    ELSE r

getInterface(name, b) == expected(name, "interface", getOrBuildType(name, b))
getObjectType(name, b) == expected(name, "object", getOrBuildType(name, b))
getInputObjectType(name, b) ==
    expected(name, "inputObject", getOrBuildType(name, b))
getInputType(name, b) == expected(name, "input", getOrBuildType(name, b))
getOutputType(name, b) == expected(name, "output", getOrBuildType(name, b))

\* ------------------------------------------------------- field compilation
\* A compiled field or argument: its key, the name it referred to and the
\* type object that name resolved to.
Entry(n, ref, t, args) ==
    [name |-> n, ref |-> ref, type |-> t, args |-> args, wrap |-> << >>,
     resolve |-> NoResolver]
\* The entry with its type decorated: wrap lists the GraphQLNonNull and
\* GraphQLList wrappers put around the named type, the innermost first.
Decorated(e, wrap) == [e EXCEPT !.wrap = wrap]
Resolving(e, fn) == [e EXCEPT !.resolve = fn]

\* firstDefined(...args): the first argument that is not undefined.
firstDefined(a, b, c) ==
    IF a # Undefined THEN a ELSE IF b # Undefined THEN b ELSE c

Not(v) == IF v = "true" THEN "false" ELSE "true"

\* inputNonNull(typeDef, field): "true" or "false", or "throw" when it throws
\* "Cannot set both nullable & required".
inputNonNull(d, field, b) ==
    IF field.nullable # Undefined /\ field.required # Undefined THEN "throw"
    ELSE IF field.nullable # Undefined THEN Not(field.nullable)
    ELSE IF field.required # Undefined THEN field.required
    ELSE firstDefined(Defs[d].nullability.input, b.nullability.input, "false")

\* outputNonNull(typeDef, field)
\* outputNonNull as it would be if output fields were nullable by default.
outputNonNull_NullByDefault(d, field, b) ==
    IF field.nullable # Undefined THEN Not(field.nullable)
    ELSE firstDefined(Defs[d].nullability.output, b.nullability.output, "false")

outputNonNull(d, field, b) ==
    IF field.nullable # Undefined THEN Not(field.nullable)
    ELSE firstDefined(Defs[d].nullability.output, b.nullability.output, "true")

\* decorateList's loop as it would be if each depth read its own element.
RECURSIVE decorateListFrom_OwnElement(_, _, _)
decorateListFrom_OwnElement(finalType, list, i) ==
    IF i > Len(list.levels) THEN finalType
    ELSE decorateListFrom_OwnElement(
             Append(IF list.levels[i] THEN Append(finalType, "NonNull")
                    ELSE finalType,
                    "List"),
             list, i + 1)

\* decorateList(type, list): list is true or an array of booleans.
RECURSIVE decorateListFrom(_, _, _)
decorateListFrom(finalType, list, i) ==
    IF i > Len(list.levels) THEN finalType
    ELSE decorateListFrom(
             Append(IF list.levels[1] THEN Append(finalType, "NonNull")
                    ELSE finalType,
                    "List"),
             list, i + 1)

decorateList(type, list) ==
    IF list.kind # "array" THEN Append(Append(type, "NonNull"), "List")
    ELSE decorateListFrom(type, list, 1)

\* decorateType(type, list, isNonNull)
decorateType(type, list, isNonNull) ==
    IF isNonNull = "true"
    THEN Append(IF list.kind # "none" THEN decorateList(type, list) ELSE type,
                "NonNull")
    ELSE IF list.kind # "none" THEN decorateList(type, list) ELSE type

\* getResolver(fieldOptions, typeConfig)
getResolver(fieldOptions, d) ==
    IF Defs[d].nexus = "Object" /\ Defs[d].defaultResolver # NoResolver
    THEN Defs[d].defaultResolver
    ELSE fieldOptions.resolve

ConflictingNullability(d, b) ==
    Throw("ConflictingNullability", Defs[d].name, << >>, b)

\* intoObject[entry.name] = entry: an existing key keeps its place.
\* Put as it would be if a key already in the map were left alone.
Put_KeepFirst(map, e) ==
    IF \E i \in DOMAIN map : map[i].name = e.name THEN map ELSE Append(map, e)

Put(map, e) ==
    IF \E i \in DOMAIN map : map[i].name = e.name
    THEN [i \in DOMAIN map |-> IF map[i].name = e.name THEN e ELSE map[i]]
    ELSE Append(map, e)

\* buildArgs: Object.keys(args).forEach((argName) => ...)
RECURSIVE buildArgsFrom(_, _, _, _, _)
RECURSIVE argBuilt(_, _, _, _, _)
argBuilt(args, i, d, allArgs, r) ==
    IF r.err # "none" THEN r
    ELSE IF inputNonNull(d, args[i], r.b) = "throw"
    THEN ConflictingNullability(d, r.b)
    ELSE buildArgsFrom(args, i + 1, d,
             Put(allArgs,
                 Decorated(Entry(args[i].name, args[i].type, r.type, NoArgs),
                           decorateType(<< >>, args[i].list,
                                        inputNonNull(d, args[i], r.b)))),
             r.b)

buildArgsFrom(args, i, d, allArgs, b) ==
    IF i > Len(args) THEN Return(b, allArgs)
    ELSE argBuilt(args, i, d, allArgs, getInputType(args[i].type, b))

buildArgs(args, d, b) == buildArgsFrom(args, 1, d, << >>, b)

\* buildObjectField: the type first, then the arguments.
fieldConfigOf(fieldConfig, d, t, a) ==
    IF a.err # "none" THEN a
    ELSE Return(a.b,
           << Resolving(
                  Decorated(
                      Entry(fieldConfig.name, fieldConfig.type, t.type, a.out),
                      decorateType(<< >>, fieldConfig.list,
                                   outputNonNull(d, fieldConfig, t.b))),
                  getResolver(fieldConfig, d)) >>)

fieldTyped(fieldConfig, d, t) ==
    IF t.err # "none" THEN t
    ELSE fieldConfigOf(fieldConfig, d, t, buildArgs(fieldConfig.args, d, t.b))

buildObjectField(fieldConfig, d, b) ==
    IF fieldConfig.type = ""
    THEN Throw("MissingFieldType", Defs[d].name, << >>, b)
    ELSE fieldTyped(fieldConfig, d, getOutputType(fieldConfig.type, b))

\* buildObjectFields: fields.forEach((field) => intoObject[field.name] = ...)
RECURSIVE buildObjectFieldsFrom(_, _, _, _, _)
RECURSIVE fieldBuilt(_, _, _, _, _)
fieldBuilt(fields, i, d, intoObject, r) ==
    IF r.err # "none" THEN r
    ELSE buildObjectFieldsFrom(fields, i + 1, d, Put(intoObject, r.out[1]), r.b)

buildObjectFieldsFrom(fields, i, d, intoObject, b) ==
    IF i > Len(fields) THEN Return(b, intoObject)
    ELSE fieldBuilt(fields, i, d, intoObject, buildObjectField(fields[i], d, b))

buildObjectFields(fields, d, intoObject, b) ==
    buildObjectFieldsFrom(fields, 1, d, intoObject, b)

inputFieldTyped(field, d, t) ==
    IF t.err # "none" THEN t
    ELSE IF inputNonNull(d, field, t.b) = "throw"
    THEN ConflictingNullability(d, t.b)
    ELSE Return(t.b,
           << Decorated(Entry(field.name, field.type, t.type, NoArgs),
                        decorateType(<< >>, field.list,
                                     inputNonNull(d, field, t.b))) >>)

buildInputObjectField(field, d, b) ==
    inputFieldTyped(field, d, getInputObjectType(field.type, b))

\* buildInputObjectFields: fields.forEach((field) => fieldMap[field.name] = ...)
RECURSIVE buildInputObjectFieldsFrom(_, _, _, _, _)
RECURSIVE inputFieldBuilt(_, _, _, _, _)
inputFieldBuilt(fields, i, d, fieldMap, r) ==
    IF r.err # "none" THEN r
    ELSE buildInputObjectFieldsFrom(fields, i + 1, d, Put(fieldMap, r.out[1]), r.b)

buildInputObjectFieldsFrom(fields, i, d, fieldMap, b) ==
    IF i > Len(fields) THEN Return(b, fieldMap)
    ELSE inputFieldBuilt(fields, i, d, fieldMap,
                         buildInputObjectField(fields[i], d, b))

buildInputObjectFields(fields, d, b) ==
    buildInputObjectFieldsFrom(fields, 1, d, << >>, b)

\* buildUnionMembers: members.forEach((member) => unionMembers.push(...))
RECURSIVE unionMembersFrom(_, _, _, _)
RECURSIVE memberPushed(_, _, _, _)
memberPushed(members, i, unionMembers, r) ==
    IF r.err # "none" THEN r
    ELSE unionMembersFrom(members, i + 1,
             Append(unionMembers, Entry("", members[i], r.type, NoArgs)), r.b)

unionMembersFrom(members, i, unionMembers, b) ==
    IF i > Len(members) THEN Return(b, unionMembers)
    ELSE memberPushed(members, i, unionMembers, getObjectType(members[i], b))

atLeastOneMember(d, r) ==
    IF r.err # "none" THEN r
    ELSE IF Len(r.out) = 0 THEN Throw("EmptyUnion", Defs[d].name, << >>, r.b)
    ELSE r

\* buildUnionMembers as it would be without the check that a member was
\* pushed.
buildUnionMembers_NoEmptyCheck(d, b) ==
    IF ~Defs[d].hasMembers
    THEN Throw("MissingMembers", Defs[d].name, << >>, b)
    ELSE unionMembersFrom(Defs[d].members, 1, << >>, b)

buildUnionMembers(d, b) ==
    IF ~Defs[d].hasMembers
    THEN Throw("MissingMembers", Defs[d].name, << >>, b)
    ELSE atLeastOneMember(d, unionMembersFrom(Defs[d].members, 1, << >>, b))

\* ------------------------------------------------------------- the thunks
\* interfaces.map((i) => this.getInterface(i))
RECURSIVE mapGetInterface(_, _, _, _)
RECURSIVE interfaceGot(_, _, _, _)
interfaceGot(interfaces, i, acc, r) ==
    IF r.err # "none" THEN r
    ELSE mapGetInterface(interfaces, i + 1,
             Append(acc, Entry("", interfaces[i], r.type, NoArgs)), r.b)

mapGetInterface(interfaces, i, acc, b) ==
    IF i > Len(interfaces) THEN Return(b, acc)
    ELSE interfaceGot(interfaces, i, acc, getInterface(interfaces[i], b))

\* interfaces: () => ... of objectType
interfacesThunk(d, b) == mapGetInterface(Defs[d].interfaces, 1, << >>, b)

\* fields: () => ... of interfaceType
interfaceFieldsThunk(d, b) == buildObjectFields(Defs[d].fields, d, << >>, b)

\* i.getFields() of an interface type object: a built one runs its fields
\* thunk; one given directly already carries its fields.
getFields(t, b) ==
    IF t.serial > 0 THEN interfaceFieldsThunk(t.def, b) ELSE Return(b, << >>)

RECURSIVE PutAll(_, _, _)
PutAll(map, entries, i) ==
    IF i > Len(entries) THEN map ELSE PutAll(Put(map, entries[i]), entries, i + 1)

\* allInterfaces.forEach((i) => ...): every interface field goes into
\* allFieldsMap; then the object's own fields are built into it.
RECURSIVE inheritFields(_, _, _, _, _)
RECURSIVE fieldsCopied(_, _, _, _, _)
fieldsCopied(d, allInterfaces, i, allFieldsMap, r) ==
    IF r.err # "none" THEN r
    ELSE inheritFields(d, allInterfaces, i + 1, PutAll(allFieldsMap, r.out, 1), r.b)

inheritFields(d, allInterfaces, i, allFieldsMap, b) ==
    IF i > Len(allInterfaces)
    THEN buildObjectFields(Defs[d].fields, d, allFieldsMap, b)
    ELSE fieldsCopied(d, allInterfaces, i, allFieldsMap,
                      getFields(allInterfaces[i].type, b))

allInterfacesGot(d, r) ==
    IF r.err # "none" THEN r ELSE inheritFields(d, r.out, 1, << >>, r.b)

\* fields: () => ... of objectType
objectFieldsThunk(d, b) == allInterfacesGot(d, interfacesThunk(d, b))

\* fields: () => ... of inputObjectType
inputObjectFieldsThunk(d, b) == buildInputObjectFields(Defs[d].fields, d, b)

\* types: () => ... of unionType
typesThunk(d, b) == buildUnionMembers(d, b)

fieldsThunk(d, b) ==
    CASE Defs[d].nexus = "Object" -> objectFieldsThunk(d, b)
      [] Defs[d].nexus = "Interface" -> interfaceFieldsThunk(d, b)
      [] Defs[d].nexus = "InputObject" -> inputObjectFieldsThunk(d, b)

\* ------------------------------------------------------------ the machine
\* The names a thunk's result refers to, each with the type object it got.
RefsOf(out) ==
    { [ref |-> out[i].ref, type |-> out[i].type] : i \in DOMAIN out }
      \cup UNION { { [ref |-> out[i].args[j].ref, type |-> out[i].args[j].type] :
                     j \in DOMAIN out[i].args } : i \in DOMAIN out }

\* What the caller sees of a call: the operation, the type object whose thunk
\* it was (NoType for addType and getFinalTypeMap), the error thrown (with the
\* names its message lists), whether the call changed one of the builder's
\* maps, and what a thunk that returned resolved each name to.
MapsOf(b) == << b.pending, b.keys, b.final, b.defined, b.ext >>

Call(op, t, r, changed) ==
    [op |-> op, owner |-> t, err |-> r.err, errName |-> r.errName,
     chain |-> r.chain, changed |-> changed, refs |-> RefsOf(r.out),
     out |-> r.out]

SetBuilder(b) ==
    /\ pendingTypeMap' = b.pending
    /\ pendingKeys' = b.keys
    /\ finalTypeMap' = b.final
    /\ definedTypeMap' = b.defined
    /\ typeExtensionMap' = b.ext
    /\ buildingTypes' = b.building
    /\ built' = b.built
    /\ config' = b.config
    /\ nullability' = b.nullability

WithinBounds(b) ==
    /\ \A n \in TypeNames : Len(b.ext[n]) <= MaxExtensions
    /\ \A n \in TypeNames : b.built[n] <= MaxBuilds

\* new SchemaBuilder(config)
Init ==
    /\ types \in Programs
    /\ pendingTypeMap = [n \in TypeNames |-> NoDef]
    /\ pendingKeys = << >>
    /\ finalTypeMap = [n \in TypeNames |-> NoType]
    /\ definedTypeMap = [n \in TypeNames |-> NoType]
    /\ typeExtensionMap = [n \in TypeNames |-> << >>]
    /\ buildingTypes = << >>
    /\ built = [n \in TypeNames |-> 0]
    /\ config \in Configs
    /\ nullability = [input |-> Undefined, output |-> Undefined]
    /\ returned = FALSE
    /\ lateReg = FALSE
    /\ finalizeCalled = FALSE
    /\ handed = {}
    /\ last = Call("new", NoType, Return(Builder, << >>), FALSE)

\* builder.addType(typeDef)
AddType(d) ==
    LET r == addType(d, Builder)
    IN  /\ WithinBounds(r.b)
        /\ SetBuilder(r.b)
        /\ lateReg' = (lateReg \/ (finalizeCalled /\ r.b.pending # pendingTypeMap))
        /\ last' = Call("addType", NoType, r, MapsOf(r.b) # MapsOf(Builder))
        /\ UNCHANGED << types, returned, finalizeCalled, handed >>

\* builder.getFinalTypeMap()
GetFinalTypeMap ==
    LET r == getFinalTypeMap(Builder)
    IN  /\ WithinBounds(r.b)
        /\ SetBuilder(r.b)
        /\ returned' = (returned \/ r.err = "none")
        /\ finalizeCalled' = TRUE
        /\ last' = Call("getFinalTypeMap", NoType, r, MapsOf(r.b) # MapsOf(Builder))
        /\ UNCHANGED << types, lateReg, handed >>

FinalTypes == { finalTypeMap[n] : n \in TypeNames }

\* The built type objects the consumer holds: those of the returned type map
\* and those a thunk has handed out.
Exposed ==
    IF ~returned THEN {} ELSE { t \in FinalTypes \cup handed : t.serial > 0 }

RunThunk(op, t, r) ==
    /\ WithinBounds(r.b)
    /\ SetBuilder(r.b)
    /\ handed' = handed \cup
                 { x.type : x \in { y \in RefsOf(r.out) :
                                    y.type.serial > 0 /\ y.type \notin FinalTypes } }
    /\ last' = Call(op, t, r, MapsOf(r.b) # MapsOf(Builder))
    /\ UNCHANGED << types, returned, lateReg, finalizeCalled >>

\* The consumer asks an object, interface or input object type for its fields.
FieldsThunk(t) ==
    /\ KindOf(t) \in {"Object", "Interface", "InputObject"}
    /\ RunThunk("fields", t, fieldsThunk(t.def, Builder))

\* The consumer asks an object type for its interfaces.
InterfacesThunk(t) ==
    /\ KindOf(t) = "Object"
    /\ RunThunk("interfaces", t, interfacesThunk(t.def, Builder))

\* The consumer asks a union type for its member types.
TypesThunk(t) ==
    /\ KindOf(t) = "Union"
    /\ RunThunk("types", t, typesThunk(t.def, Builder))

Next ==
    \/ \E d \in types : AddType(d)
    \/ GetFinalTypeMap
    \/ \E t \in Exposed : FieldsThunk(t)
    \/ \E t \in Exposed : InterfacesThunk(t)
    \/ \E t \in Exposed : TypesThunk(t)

Spec == Init /\ [][Next]_vars

\* ================================================================ claims
IsThunk(op) == op \in {"fields", "interfaces", "types"}

\* The name of d is held, in finalTypeMap or in pendingTypeMap, by an object
\* other than d.
PresentAsDifferent(d) ==
    \/ /\ finalTypeMap[Defs[d].name] # NoType
       /\ finalTypeMap[Defs[d].name] # ObjRef(d)
    \/ /\ pendingTypeMap[Defs[d].name] # NoDef
       /\ pendingTypeMap[Defs[d].name] # d

\* Every pending interface or union sets a resolveType in its definition.
WellFormedPending ==
    \A n \in TypeNames :
        (pendingTypeMap[n] # NoDef
           /\ Defs[pendingTypeMap[n]].nexus \in {"Interface", "Union"})
        => Defs[pendingTypeMap[n]].resolveType

\* C1 -- Conflict detection: in every reachable state, addType of a
\* definition or GraphQLNamedType d that is no extendType, whose name is
\* already held in pendingTypeMap or finalTypeMap by a different object,
\* throws extendError for that name and changes nothing; and whenever
\* addType has thrown, that is the error it threw.
C1_ConflictDetected ==
    /\ \A d \in DefIds :
          (~isNexusExtendTypeDef(d) /\ PresentAsDifferent(d))
          => /\ addType(d, Builder).err = "AlreadyDefined"
             /\ addType(d, Builder).errName = Defs[d].name
             /\ addType(d, Builder).b = Builder
    /\ (last.op = "addType" /\ last.err # "none")
       => /\ last.err = "AlreadyDefined"
          /\ ~last.changed
          /\ \/ finalTypeMap[last.errName] # NoType
             \/ pendingTypeMap[last.errName] # NoDef

\* C1 witness: addType has just thrown for the name C while the descriptor
\* dC is pending (the rejected object is the other descriptor dC2 or the
\* GraphQLNamedType gC).
C1_Witness ==
    /\ last.op = "addType"
    /\ last.err = "AlreadyDefined"
    /\ last.errName = "C"
    /\ pendingTypeMap["C"] = "dC"

C3_PredefinedKept ==
    /\ [](\A n \in TypeNames :
            definedTypeMap[n] # NoType
            => /\ finalTypeMap[n] = definedTypeMap[n]
               /\ pendingTypeMap[n] = NoDef)
    /\ [][\A n \in TypeNames :
            definedTypeMap[n] # NoType
            => definedTypeMap'[n] = definedTypeMap[n]]_vars

\* C3 witness: gC was given as C, and a getFinalTypeMap has returned since.
C3_Witness ==
    /\ definedTypeMap["C"] = GivenType("gC")
    /\ pendingTypeMap["A"] = "dA"
    /\ last.op = "getFinalTypeMap"
    /\ last.err = "none"

\* C4 (as claimed) -- Exactly-once construction: the kind-specific builder
\* runs at most once for a name, and an entry of finalTypeMap is never
\* replaced by another object.
C4_BuiltOnce ==
    [][\A n \in TypeNames :
          /\ built'[n] <= 1
          /\ finalTypeMap[n] # NoType => finalTypeMap'[n] = finalTypeMap[n]]_vars

\* C5 -- Finalize completeness: when getFinalTypeMap returns, the type map
\* has an entry for every pending descriptor's name and for every name given
\* as a GraphQLNamedType, the latter being the object given.
C5_FinalizeComplete ==
    (last.op = "getFinalTypeMap" /\ last.err = "none")
    => \A n \in TypeNames :
          /\ pendingTypeMap[n] # NoDef => finalTypeMap[n] # NoType
          /\ definedTypeMap[n] # NoType => finalTypeMap[n] = definedTypeMap[n]

\* C5 witness: getFinalTypeMap has built two pending descriptors and returned
\* them with the type given directly as C.
C5_Witness ==
    /\ last.op = "getFinalTypeMap"
    /\ last.err = "none"
    /\ last.changed
    /\ Len(pendingKeys) = 2
    /\ definedTypeMap["C"] # NoType

\* The name is registered: a definition or a type given directly holds it.
Registered(n) ==
    n \in TypeNames /\ (pendingTypeMap[n] # NoDef \/ finalTypeMap[n] # NoType)

\* C6 -- Forward and mutual references: when every descriptor was registered
\* before the first getFinalTypeMap (in whatever order) and every pending
\* interface and union sets its resolveType, getFinalTypeMap returns, and a
\* thunk then never throws a circular dependency and resolves every
\* registered name it refers to to that name's entry of finalTypeMap.
C6_ForwardReferences ==
    (~lateReg /\ WellFormedPending)
    => /\ last.op = "getFinalTypeMap" => last.err = "none"
       /\ IsThunk(last.op)
          => /\ last.err # "CircularDependency"
             /\ \A x \in last.refs :
                   Registered(x.ref) => x.type = finalTypeMap[x.ref]

\* C6 witness: B was registered before A, which it refers to and which
\* refers back to it; the fields of B have just been computed.
C6_Witness ==
    /\ ~lateReg
    /\ pendingKeys = << "B", "C", "A" >>
    /\ last.op = "fields"
    /\ last.owner = finalTypeMap["B"]
    /\ last.err = "none"
    /\ [ref |-> "A", type |-> finalTypeMap["A"]] \in last.refs

\* The C got by a first and by a second computation of field maps, both of
\* which returned: there is one, and it is the entry of finalTypeMap.
DiamondAgree(r1, r2) ==
    /\ r1.err = "none"
    /\ r2.err = "none"
    /\ \E x \in RefsOf(r1.out) : x.ref = "C"
    /\ \E y \in RefsOf(r2.out) : y.ref = "C"
    /\ \A x \in RefsOf(r1.out), y \in RefsOf(r2.out) :
          (x.ref = "C" /\ y.ref = "C")
          => /\ x.type = y.type
             /\ y.type = finalTypeMap["C"]

\* C7 -- Diamond safety: when every descriptor was registered before the
\* first getFinalTypeMap, then in every state, whatever thunks ran before,
\* (1) once A, B (which both refer to C) and C are in finalTypeMap, computing
\* the fields of A and of B one after the other, in either order and the same
\* type twice included, returns both times, and the C of the one is the C of
\* the other and the entry of finalTypeMap; (2) computing the fields of any
\* two exposed types one after the other gives, for a name both refer to, the
\* identical type object, which is that name's entry of finalTypeMap.
C7_DiamondSafety ==
    ~lateReg
    => /\ (/\ pendingTypeMap["A"] # NoDef /\ finalTypeMap["A"] # NoType
            /\ pendingTypeMap["B"] # NoDef /\ finalTypeMap["B"] # NoType
            /\ finalTypeMap["C"] # NoType)
           => \A n1 \in {"A", "B"}, n2 \in {"A", "B"} :
                 DiamondAgree(
                     fieldsThunk(pendingTypeMap[n1], Builder),
                     fieldsThunk(pendingTypeMap[n2],
                                 fieldsThunk(pendingTypeMap[n1], Builder).b))
       /\ \A t1 \in Exposed, t2 \in Exposed :
             (/\ KindOf(t1) \in {"Object", "Interface", "InputObject"}
              /\ KindOf(t2) \in {"Object", "Interface", "InputObject"}
              /\ fieldsThunk(t1.def, Builder).err = "none"
              /\ fieldsThunk(t2.def, fieldsThunk(t1.def, Builder).b).err
                   = "none")
             => \A x \in RefsOf(fieldsThunk(t1.def, Builder).out),
                   y \in RefsOf(fieldsThunk(t2.def,
                                 fieldsThunk(t1.def, Builder).b).out) :
                   (x.ref = y.ref /\ Registered(x.ref))
                   => /\ x.type = y.type
                      /\ y.type = finalTypeMap[x.ref]

\* C7 witness: A, B and C are built, and the fields of B, which like those
\* of A refer to C, have just been computed.
C7_Witness ==
    /\ ~lateReg
    /\ finalTypeMap["A"].def = "dA"
    /\ finalTypeMap["C"].def = "dC"
    /\ last.op = "fields"
    /\ last.owner = finalTypeMap["B"]
    /\ [ref |-> "C", type |-> finalTypeMap["C"]] \in last.refs

\* C8 -- Cycle guard: getOrBuildType of a name that is in buildingTypes and
\* not in finalTypeMap throws a circular dependency listing buildingTypes in
\* insertion order, builds nothing and leaves the builder as it was; and a
\* call that threw one listed exactly buildingTypes.
C8_CycleGuard ==
    /\ \A n \in TypeNames :
          (Has(buildingTypes, n) /\ finalTypeMap[n] = NoType)
          => /\ getOrBuildType(n, Builder).err = "CircularDependency"
             /\ getOrBuildType(n, Builder).chain = buildingTypes
             /\ getOrBuildType(n, Builder).b = Builder
    /\ last.err = "CircularDependency"
       => /\ last.chain = buildingTypes
          /\ Has(buildingTypes, last.errName)
          /\ finalTypeMap[last.errName] = NoType

\* C8 witness: a call threw a circular dependency while two names were in
\* buildingTypes.
C8_Witness ==
    /\ last.err = "CircularDependency"
    /\ Len(buildingTypes) = 2
    /\ last.chain = buildingTypes

\* C9 (as claimed) -- In-progress is released: after any call has returned
\* or thrown, buildingTypes is empty.
C9_InProgressReleased == buildingTypes = << >>

\* C10 (as claimed) -- Resolve memoizes: when a thunk has resolved a pending
\* name, the type object it got is stored in finalTypeMap, and a further
\* getOrBuildType of that name returns the identical object without running
\* a builder.
C10_ResolveMemoizes ==
    IsThunk(last.op)
    => \A x \in last.refs :
          (x.ref \in TypeNames /\ pendingTypeMap[x.ref] # NoDef)
          => /\ finalTypeMap[x.ref] = x.type
             /\ getOrBuildType(x.ref, Builder).err = "none"
             /\ getOrBuildType(x.ref, Builder).type = x.type
             /\ getOrBuildType(x.ref, Builder).b.built = built

\* The type objects that were built from an interfaceType or unionType.
IsAbstractDef(d) == Defs[d].nexus \in {"Interface", "Union"}
BuiltAbstract(t) == t.serial > 0 /\ IsAbstractDef(t.def)

\* C11 -- Abstract types need a resolver: in every reachable state no type
\* object in finalTypeMap or handed out by a thunk was built from an
\* interfaceType or unionType whose definition set no resolveType; building
\* such a definition throws the missing-resolveType error for its name,
\* gives no type object and leaves finalTypeMap as it was; and after a call
\* that threw this error the name has no entry in finalTypeMap.
C11_AbstractNeedsResolver ==
    /\ \A t \in FinalTypes \cup handed :
          BuiltAbstract(t) => Defs[t.def].resolveType
    /\ \A d \in DefIds :
          (IsAbstractDef(d) /\ ~Defs[d].resolveType)
          => /\ dispatch(Defs[d].name, d, Builder).err = "MissingResolveType"
             /\ dispatch(Defs[d].name, d, Builder).errName = Defs[d].name
             /\ dispatch(Defs[d].name, d, Builder).type = NoType
             /\ dispatch(Defs[d].name, d, Builder).b.final = finalTypeMap
    /\ last.err = "MissingResolveType"
       => /\ finalTypeMap[last.errName] = NoType
          /\ IsAbstractDef(pendingTypeMap[last.errName])
          /\ ~Defs[pendingTypeMap[last.errName]].resolveType

\* C11 witness: getFinalTypeMap has built the union W and then thrown for
\* the union V, whose definition sets no resolveType.
C11_Witness ==
    /\ last.op = "getFinalTypeMap"
    /\ last.err = "MissingResolveType"
    /\ last.errName = "V"
    /\ finalTypeMap["W"] # NoType
    /\ finalTypeMap["V"] = NoType

\* The two errors of buildUnionMembers for a union without members: "Missing
\* Union members for <name>" (t.members was not called) and "Union <name>
\* must have at least one member type" (it was called with no member).
NoMembersErrors == {"MissingMembers", "EmptyUnion"}

\* C12 -- Union membership: the types thunk of a union never returns an empty
\* list; for a union whose definition declared no member (an empty list, or
\* no declaration) it throws the no-members error naming the union; and when
\* it returns, the members are the declared ones in declaration order, each
\* an object type.
C12_UnionMembership ==
    /\ \A d \in DefIds :
          (Defs[d].nexus = "Union" /\ Len(Defs[d].members) = 0)
          => /\ typesThunk(d, Builder).err \in NoMembersErrors
             /\ typesThunk(d, Builder).errName = Defs[d].name
    /\ last.op = "types"
       => /\ Len(Defs[last.owner.def].members) = 0
             => /\ last.err \in NoMembersErrors
                /\ last.errName = Defs[last.owner.def].name
          /\ last.err \in NoMembersErrors
             => Len(Defs[last.owner.def].members) = 0
          /\ last.err = "none"
             => /\ Len(last.out) >= 1
                /\ [i \in DOMAIN last.out |-> last.out[i].ref]
                     = Defs[last.owner.def].members
                /\ \A i \in DOMAIN last.out :
                      /\ KindOf(last.out[i].type) = "Object"
                      /\ NameOf(last.out[i].type) = last.out[i].ref

\* C12 witness: the types thunk of the union W, declared with an empty list
\* of members, has thrown.
C12_Witness ==
    /\ last.op = "types"
    /\ last.owner = finalTypeMap["W"]
    /\ last.err = "EmptyUnion"
    /\ last.errName = "W"

\* The names of the fields a definition declares, and the declaration of one.
FieldNames(fields) == { fields[i].name : i \in DOMAIN fields }
FieldNamed(fields, n) == fields[CHOOSE i \in DOMAIN fields : fields[i].name = n]
\* The definitions of the interfaces an object definition implements.
InterfaceDefs(d) ==
    { pendingTypeMap[Defs[d].interfaces[i]] : i \in DOMAIN Defs[d].interfaces }

\* C13 -- Interface inheritance with own-field precedence: when the fields
\* thunk of an object type returns, the keys of the field map are exactly
\* the field names of the implemented interfaces and the object's own field
\* names, each once; a name the object declares carries the object's own
\* field (its type reference, the type of that name, its own arguments); a
\* name only an interface declares carries that interface's field: its type
\* reference and type, wrapped as the interface wraps it, and its resolver.
C13_InterfaceInheritance ==
    (last.op = "fields" /\ last.err = "none" /\ KindOf(last.owner) = "Object")
    => /\ { last.out[i].name : i \in DOMAIN last.out }
            = FieldNames(Defs[last.owner.def].fields)
              \cup UNION { FieldNames(Defs[di].fields) :
                           di \in InterfaceDefs(last.owner.def) }
       /\ \A i \in DOMAIN last.out, j \in DOMAIN last.out :
             last.out[i].name = last.out[j].name => i = j
       /\ \A i \in DOMAIN last.out :
             IF last.out[i].name \in FieldNames(Defs[last.owner.def].fields)
             THEN /\ last.out[i].ref
                       = FieldNamed(Defs[last.owner.def].fields,
                                    last.out[i].name).type
                  /\ NameOf(last.out[i].type) = last.out[i].ref
                  /\ Len(last.out[i].args)
                       = Len(FieldNamed(Defs[last.owner.def].fields,
                                        last.out[i].name).args)
             ELSE \E di \in InterfaceDefs(last.owner.def) :
                     /\ last.out[i].name \in FieldNames(Defs[di].fields)
                     /\ last.out[i].ref
                          = FieldNamed(Defs[di].fields, last.out[i].name).type
                     /\ NameOf(last.out[i].type) = last.out[i].ref
                     /\ last.out[i].resolve
                          = FieldNamed(Defs[di].fields, last.out[i].name).resolve
                     /\ last.out[i].wrap
                          = decorateType(<< >>,
                                FieldNamed(Defs[di].fields, last.out[i].name).list,
                                outputNonNull(di,
                                    FieldNamed(Defs[di].fields, last.out[i].name),
                                    Builder))

\* C13 witness: the fields of C, which implements I and declares ok as I
\* does, have been computed: id from I, ok and plain from C.
C13_Witness ==
    /\ last.op = "fields"
    /\ last.err = "none"
    /\ last.owner.def = "dC"
    /\ Len(last.out) = 3
    /\ \E i \in DOMAIN last.out :
          last.out[i].name = "ok" /\ last.out[i].ref = "Boolean"
    /\ \E i \in DOMAIN last.out :
          last.out[i].name = "id" /\ last.out[i].resolve = "resolveId"

\* C14 (as claimed) -- Field resolver precedence: when the fields thunk of
\* an object type returns, the resolver of every own field is the field's
\* own resolve when it declares one, otherwise the object type's
\* defaultResolver when declared, otherwise none.
C14_ResolverPrecedence ==
    (last.op = "fields" /\ last.err = "none" /\ KindOf(last.owner) = "Object")
    => \A i \in DOMAIN last.out :
          last.out[i].name \in FieldNames(Defs[last.owner.def].fields)
          => last.out[i].resolve
               = firstDefined(
                     IF FieldNamed(Defs[last.owner.def].fields,
                                   last.out[i].name).resolve # NoResolver
                     THEN FieldNamed(Defs[last.owner.def].fields,
                                     last.out[i].name).resolve
                     ELSE Undefined,
                     IF Defs[last.owner.def].defaultResolver # NoResolver
                     THEN Defs[last.owner.def].defaultResolver
                     ELSE Undefined,
                     NoResolver)

\* The outer wrapper of a compiled field or argument is GraphQLNonNull.
IsNonNull(e) == Len(e.wrap) > 0 /\ e.wrap[Len(e.wrap)] = "NonNull"

\* The layered nonNull of a field or argument of definition d on a side
\* ("input" or "output"): its explicit nullable / required, then d's
\* nullability for the side, then the nullability of the builder's config,
\* then the default of the side.
LayeredNonNull(f, d, side) ==
    firstDefined(
        IF f.nullable # Undefined THEN Not(f.nullable) ELSE f.required,
        Defs[d].nullability[side],
        firstDefined(config.nullability[side], Undefined,
                     IF side = "output" THEN "true" ELSE "false"))

SideOf(d) == IF Defs[d].nexus = "InputObject" THEN "input" ELSE "output"

\* C15 (as claimed) -- Layered nullability: when a fields thunk returns,
\* every own field, and every argument of an own field, that does not set
\* both nullable and required is non-null exactly when the first defined of
\* its explicit setting, the owning type's nullability for its side, the
\* config's nullability for its side and the default of the side says so.
C15_LayeredNullability ==
    (last.op = "fields" /\ last.err = "none")
    => \A i \in DOMAIN last.out :
          last.out[i].name \in FieldNames(Defs[last.owner.def].fields)
          => /\ (\/ FieldNamed(Defs[last.owner.def].fields,
                               last.out[i].name).nullable = Undefined
                 \/ FieldNamed(Defs[last.owner.def].fields,
                               last.out[i].name).required = Undefined)
                => (IsNonNull(last.out[i])
                    <=> LayeredNonNull(
                            FieldNamed(Defs[last.owner.def].fields,
                                       last.out[i].name),
                            last.owner.def, SideOf(last.owner.def)) = "true")
             /\ \A j \in DOMAIN last.out[i].args :
                   IsNonNull(last.out[i].args[j])
                   <=> LayeredNonNull(
                           FieldNamed(
                               FieldNamed(Defs[last.owner.def].fields,
                                          last.out[i].name).args,
                               last.out[i].args[j].name),
                           last.owner.def, "input") = "true"

\* A field or argument with no list, no nullable and no required.
IsPlain(f) ==
    f.list = NoList /\ f.nullable = Undefined /\ f.required = Undefined

\* C16 -- Default wrapping: under the default config, in a type definition
\* without nullability of its own, a plain own field of an object or
\* interface type compiles to GraphQLNonNull of its named type, a plain
\* field of an input object type to the bare named type, and a plain
\* argument of a field to the bare named type.
C16_DefaultWrapping ==
    (/\ last.op = "fields" /\ last.err = "none"
     /\ config = DefaultConfig
     /\ Defs[last.owner.def].nullability
          = [input |-> Undefined, output |-> Undefined])
    => \A i \in DOMAIN last.out :
          last.out[i].name \in FieldNames(Defs[last.owner.def].fields)
          => /\ IsPlain(FieldNamed(Defs[last.owner.def].fields,
                                   last.out[i].name))
                => last.out[i].wrap
                     = IF KindOf(last.owner) = "InputObject"
                       THEN << >> ELSE << "NonNull" >>
             /\ \A j \in DOMAIN last.out[i].args :
                   IsPlain(FieldNamed(
                               FieldNamed(Defs[last.owner.def].fields,
                                          last.out[i].name).args,
                               last.out[i].args[j].name))
                   => last.out[i].args[j].wrap = << >>

\* C16 witness: under the default config the fields of A have been computed,
\* with the plain field self and its plain argument depth.
C16_Witness ==
    /\ config = DefaultConfig
    /\ last.op = "fields"
    /\ last.err = "none"
    /\ last.owner.def = "dA"
    /\ \E i \in DOMAIN last.out :
          /\ last.out[i].name = "self"
          /\ last.out[i].wrap = << "NonNull" >>
          /\ Len(last.out[i].args) = 1
          /\ last.out[i].args[1].wrap = << >>

\* A field or argument that sets both nullable and required.
SetsBoth(f) == f.nullable # Undefined /\ f.required # Undefined
\* A definition one of whose own fields, or one of their arguments, does.
HasConflict(d) ==
    \E i \in DOMAIN Defs[d].fields :
        \/ SetsBoth(Defs[d].fields[i])
        \/ \E j \in DOMAIN Defs[d].fields[i].args :
              SetsBoth(Defs[d].fields[i].args[j])

\* C17 (as claimed) -- Conflicting nullability: the fields thunk of a type
\* one of whose own fields (output or input), or one of their arguments,
\* sets both nullable and required never returns a field map: it throws, and
\* no entry is compiled for that field or argument.
C17_ConflictingNullability ==
    (last.op = "fields" /\ HasConflict(last.owner.def)) => last.err # "none"

\* C18 (as claimed) -- Extensions are merged: when the fields thunk of the
\* type named N returns, the field map has every field of every extendType
\* registered for N, the last registered extension of a field name deciding
\* its type.
C18_ExtensionsMerged ==
    (last.op = "fields" /\ last.err = "none")
    => \A k \in DOMAIN typeExtensionMap[NameOf(last.owner)] :
          \A f \in DOMAIN Defs[typeExtensionMap[NameOf(last.owner)][k]].fields :
             \E i \in DOMAIN last.out :
                /\ last.out[i].name
                     = Defs[typeExtensionMap[NameOf(last.owner)][k]].fields[f].name
                /\ \/ last.out[i].ref
                        = Defs[typeExtensionMap[NameOf(last.owner)][k]].fields[f].type
                   \/ \E k2 \in DOMAIN typeExtensionMap[NameOf(last.owner)] :
                         k2 > k

\* C19 (as claimed) -- Dangling extensions are reported: getFinalTypeMap
\* does not return while an extendType is registered for a name that is
\* neither pending, nor given directly, nor a builtin scalar.
C19_DanglingReported ==
    (last.op = "getFinalTypeMap" /\ last.err = "none")
    => \A n \in TypeNames :
          typeExtensionMap[n] # << >>
          => \/ pendingTypeMap[n] # NoDef
             \/ definedTypeMap[n] # NoType
             \/ n \in SCALARS

\* A pending name, not yet in finalTypeMap, of an interface or union
\* definition that sets no resolveType: building it throws.
ThrowsWhenBuilt(n) ==
    /\ pendingTypeMap[n] # NoDef
    /\ finalTypeMap[n] = NoType
    /\ IsAbstractDef(pendingTypeMap[n])
    /\ ~Defs[pendingTypeMap[n]].resolveType

\* The thunks of a built type all return.
ThunksReturn(t) ==
    CASE KindOf(t) = "Union" -> typesThunk(t.def, Builder).err = "none"
      [] KindOf(t) = "Object" ->
             /\ fieldsThunk(t.def, Builder).err = "none"
             /\ interfacesThunk(t.def, Builder).err = "none"
      [] OTHER -> fieldsThunk(t.def, Builder).err = "none"

Untouched(r) == MapsOf(r.b) = MapsOf(Builder) /\ r.b.building = buildingTypes

\* What is left of a compiled entry when the identity of the type objects
\* is set aside.
Shape(e) ==
    [name |-> e.name, ref |-> e.ref, wrap |-> e.wrap, resolve |-> e.resolve,
     args |-> [j \in DOMAIN e.args |->
                  [name |-> e.args[j].name, ref |-> e.args[j].ref,
                   wrap |-> e.args[j].wrap]]]

\* Two outcomes are the same failure, or structurally equal results.
SameOutcome(r1, r2) ==
    /\ r1.err = r2.err
    /\ r1.errName = r2.errName
    /\ [i \in DOMAIN r1.out |-> Shape(r1.out[i])]
         = [i \in DOMAIN r2.out |-> Shape(r2.out[i])]

\* C21 (as claimed) -- Deferred computations are idempotent and free of
\* side effects: in every reachable state, each thunk of each exposed type
\* leaves pendingTypeMap, finalTypeMap, definedTypeMap, typeExtensionMap and
\* buildingTypes as they are, and run twice in succession it gives the same
\* outcome both times.
C21_ThunksIdempotent ==
    \A t \in Exposed :
       /\ KindOf(t) \in {"Object", "Interface", "InputObject"}
          => /\ Untouched(fieldsThunk(t.def, Builder))
             /\ SameOutcome(fieldsThunk(t.def, Builder),
                            fieldsThunk(t.def, fieldsThunk(t.def, Builder).b))
       /\ KindOf(t) = "Object"
          => /\ Untouched(interfacesThunk(t.def, Builder))
             /\ SameOutcome(interfacesThunk(t.def, Builder),
                            interfacesThunk(t.def,
                                interfacesThunk(t.def, Builder).b))
       /\ KindOf(t) = "Union"
          => /\ Untouched(typesThunk(t.def, Builder))
             /\ SameOutcome(typesThunk(t.def, Builder),
                            typesThunk(t.def, typesThunk(t.def, Builder).b))

\* Names no type definition of any schema has.
UnknownNames == {"Nope", "Strin"}

\* C22 -- Missing type: in every reachable state getOrBuildType of a
\* (non-empty) name that is no builtin scalar, not in finalTypeMap and not
\* in pendingTypeMap throws the missing-type error naming it, returns no
\* type and leaves the builder, buildingTypes included, as it was; and a
\* call that threw this error named a name that is in none of the three.
C22_MissingType ==
    /\ \A n \in TypeNames \cup UnknownNames :
          (/\ n \notin SCALARS
           /\ Lookup(finalTypeMap, n) = NoType
           /\ LookupDef(pendingTypeMap, n) = NoDef)
          => /\ getOrBuildType(n, Builder).err = "MissingType"
             /\ getOrBuildType(n, Builder).errName = n
             /\ getOrBuildType(n, Builder).type = NoType
             /\ getOrBuildType(n, Builder).b = Builder
    /\ last.err = "MissingType"
       => /\ last.errName \notin SCALARS
          /\ Lookup(finalTypeMap, last.errName) = NoType
          /\ LookupDef(pendingTypeMap, last.errName) = NoDef
          /\ ~Has(buildingTypes, last.errName)

\* C22 witness: the fields thunk of A has thrown the missing-type error for
\* B, which was never registered.
C22_Witness ==
    /\ last.op = "fields"
    /\ last.owner.def = "dA"
    /\ last.err = "MissingType"
    /\ last.errName = "B"
    /\ pendingTypeMap["B"] = NoDef

\* C23 -- Extension registration always succeeds: in every reachable state,
\* whether its name is unknown, pending, final or given directly, addType of
\* an extendType throws nothing, makes it the last element of
\* typeExtensionMap[name] after the earlier ones in their order, and leaves
\* every other entry of typeExtensionMap, pendingTypeMap, finalTypeMap,
\* definedTypeMap and buildingTypes as they are; and an addType that changed
\* typeExtensionMap threw nothing and changed nothing else.
C23_ExtensionAlwaysRegisters ==
    /\ [](\A d \in DefIds :
            isNexusExtendTypeDef(d)
            => /\ addType(d, Builder).err = "none"
               /\ addType(d, Builder).b
                    = [Builder EXCEPT
                         !.ext = [typeExtensionMap EXCEPT
                                    ![Defs[d].name] =
                                        typeExtensionMap[Defs[d].name]
                                          \o << d >>]])
    /\ [][typeExtensionMap' # typeExtensionMap
          => /\ last'.op = "addType"
             /\ last'.err = "none"
             /\ \E n \in TypeNames :
                   /\ Len(typeExtensionMap'[n]) = Len(typeExtensionMap[n]) + 1
                   /\ SubSeq(typeExtensionMap'[n], 1, Len(typeExtensionMap[n]))
                        = typeExtensionMap[n]
                   /\ isNexusExtendTypeDef(
                          typeExtensionMap'[n][Len(typeExtensionMap'[n])])
                   /\ \A m \in TypeNames \ {n} :
                         typeExtensionMap'[m] = typeExtensionMap[m]
             /\ UNCHANGED << pendingTypeMap, pendingKeys, finalTypeMap,
                             definedTypeMap, buildingTypes >>]_vars

\* C23 witness: an extendType of C was registered, a second time, while C
\* is a type given directly.
C23_Witness ==
    /\ last.op = "addType"
    /\ last.err = "none"
    /\ last.changed
    /\ definedTypeMap["C"] # NoType
    /\ typeExtensionMap["C"] = << "eC", "eC" >>

\* Every builtin scalar name is resolved to the builtin, whatever the maps
\* hold, by getOrBuildType and by the thunks, and no builder ever runs for
\* such a name.
ScalarsBypass ==
    /\ \A s \in SCALARS :
          getOrBuildType(s, Builder) = ReturnType(Builder, ScalarType(s))
    /\ \A x \in last.refs : x.ref \in SCALARS => x.type = ScalarType(x.ref)
    /\ \A s \in SCALARS \cap TypeNames :
          /\ built[s] = 0
          /\ finalTypeMap[s] \in {NoType, ScalarType(s)}

\* C24 (as claimed) -- Builtin scalars bypass the registry: every builtin
\* scalar name is resolved to the builtin in every state, and none of them
\* is ever a key of pendingTypeMap, whatever was registered.
C24_ScalarsNeverPending ==
    /\ ScalarsBypass
    /\ \A s \in SCALARS : LookupDef(pendingTypeMap, s) = NoDef

\* The list specs of the check: true, and every boolean[] of 1 to
\* MaxListDepth elements.
ListSpecs ==
    {ListTrue} \cup
    { ListOf(s) : s \in UNION { [1..n -> BOOLEAN] : n \in 1..MaxListDepth } }

RECURSIVE Repeat(_, _)
Repeat(unit, n) == IF n = 0 THEN << >> ELSE unit \o Repeat(unit, n - 1)

\* The wrappers of the list-wrapping rule, innermost first: for true one
\* NonNull and one List; for a boolean[] s of length n, n times a List,
\* each preceded by a NonNull exactly when the first element of s is true;
\* then one NonNull when the nonNull flag is set.
ListWraps(list, isNonNull) ==
    (IF list.kind = "true" THEN << "NonNull", "List" >>
     ELSE Repeat(IF list.levels[1] THEN << "NonNull", "List" >>
                 ELSE << "List" >>,
                 Len(list.levels)))
    \o (IF isNonNull = "true" THEN << "NonNull" >> ELSE << >>)

\* C25 -- List wrapping: for the list spec true, decorateType gives
\* List(NonNull(T)); for a boolean[] s of length n >= 1 it gives exactly n
\* nested List wrappers, the type being wrapped NonNull before each of them
\* exactly when s[0] is true, whatever the element at that depth; the outer
\* NonNull of the nonNull flag is applied once, after all list wraps. Every
\* own field a fields thunk has compiled from a list spec is wrapped so.
C25_ListWrapping ==
    /\ \A list \in ListSpecs, isNonNull \in {"true", "false"} :
          /\ decorateType(<< >>, list, isNonNull) = ListWraps(list, isNonNull)
          /\ list.kind = "array"
             => Cardinality({ k \in DOMAIN decorateList(<< >>, list) :
                               decorateList(<< >>, list)[k] = "List" })
                  = Len(list.levels)
    /\ (last.op = "fields" /\ last.err = "none")
       => \A i \in DOMAIN last.out :
             (/\ last.out[i].name \in FieldNames(Defs[last.owner.def].fields)
              /\ FieldNamed(Defs[last.owner.def].fields,
                            last.out[i].name).list \in ListSpecs)
             => last.out[i].wrap
                  = ListWraps(FieldNamed(Defs[last.owner.def].fields,
                                         last.out[i].name).list,
                              IF IsNonNull(last.out[i]) THEN "true"
                              ELSE "false")

\* C25 witness: the fields of G have been computed: grid, with list
\* [true, false], is NonNull(List(NonNull(List(NonNull(Float))))), the
\* second element not consulted; rows, with list [false, true] and
\* nullable, is List(List(Int)).
C25_Witness ==
    /\ last.op = "fields"
    /\ last.err = "none"
    /\ last.owner.def = "dG"
    /\ \E i \in DOMAIN last.out :
          /\ last.out[i].name = "grid"
          /\ last.out[i].wrap
               = << "NonNull", "List", "NonNull", "List", "NonNull" >>
    /\ \E i \in DOMAIN last.out :
          /\ last.out[i].name = "rows"
          /\ last.out[i].wrap = << "List", "List" >>

\* C26 -- Failed registration has no effect: in every reachable state, an
\* addType that throws extendError gives back the builder it was called
\* on (pendingTypeMap and its keys, finalTypeMap, definedTypeMap,
\* typeExtensionMap, buildingTypes), and getFinalTypeMap after it returns
\* or throws, and leaves the builder, as getFinalTypeMap without it; and
\* every addType step that has thrown left all of these, and the outcome of
\* a getFinalTypeMap that follows, as they were.
C26_FailedRegistrationNoEffect ==
    /\ [](\A d \in DefIds :
            addType(d, Builder).err = "AlreadyDefined"
            => /\ addType(d, Builder).b = Builder
               /\ getFinalTypeMap(addType(d, Builder).b)
                    = getFinalTypeMap(Builder))
    /\ [][(last'.op = "addType" /\ last'.err = "AlreadyDefined")
          => /\ UNCHANGED << pendingTypeMap, pendingKeys, finalTypeMap,
                             definedTypeMap, typeExtensionMap, buildingTypes,
                             built >>
             /\ getFinalTypeMap(Builder)' = getFinalTypeMap(Builder)]_vars

\* C26 witness: addType has just thrown for the name C, which a
\* GraphQLNamedType given directly holds in finalTypeMap and definedTypeMap
\* (the rejected object is one of the definitions dC, dC2); C is still not
\* pending.
C26_Witness ==
    /\ last.op = "addType"
    /\ last.err = "AlreadyDefined"
    /\ last.errName = "C"
    /\ definedTypeMap["C"] = GivenType("gC")
    /\ finalTypeMap["C"] = GivenType("gC")
    /\ pendingTypeMap["C"] = NoDef

====
